---- MODULE Spec2Model ----
(***************************************************************************)
(* Model of pytorch_toolbelt/modules/encoders/timm/efficient_net.py:       *)
(* the input-channel adapter make_n_channel_input_conv2d_same and the      *)
(* encoder classes B0Encoder .. B7Encoder, MixNetXLEncoder.                *)
(*                                                                         *)
(* A weight tensor [O, C', kH, kW] is modelled along its channel axis      *)
(* (dim=1, the only axis the adapter touches) as a sequence of channel     *)
(* slices; a slice is named by a number, the pretrained slices of a        *)
(* tensor with k channels being 1..k, and 0 being a freshly initialised    *)
(* (random) slice.  Rates are in hundredths (0.05 is 5).                   *)
(***************************************************************************)
EXTENDS Integers, Sequences, FiniteSets, TLC

VARIABLES self, nextId, warnings, calls, out, arg

vars == <<self, nextId, warnings, calls, out, arg>>

-----------------------------------------------------------------------------
(* Bounds of the model *)

\* largest channel count requested of the adapter
MaxCount == 6
\* largest in_channels of a convolution handed directly to the adapter
MaxConvChannels == 6
\* largest channel count requested in a direct call of the adapter
MaxDirectCount == 8
\* number of change_input_channels calls made on one encoder
MaxCalls == 2
\* longest requested-stage list given to a constructor
MaxLayers == 2

Counts == -1 .. MaxCount

-----------------------------------------------------------------------------
(* Python helpers *)

Min(a, b) == IF a < b THEN a ELSE b
Max(a, b) == IF a > b THEN a ELSE b

\* a bug: in_channels // conv.in_channels, rounding down
ceil_floor(a, b) == a \div b

\* math.ceil(a / float(b)) for a >= 0, b > 0
ceil(a, b) == (a + b - 1) \div b

\* a bug: torch.repeat_interleave(w, n, dim=1), each slice n times in a row
cat_interleave(w, n) == [i \in 1 .. (n * Len(w)) |-> w[((i - 1) \div n) + 1]]

\* torch.cat([w] * n, dim=1)
RECURSIVE cat(_, _)
cat(w, n) == IF n <= 0 THEN <<>> ELSE w \o cat(w, n - 1)

\* w[:, 0:k, ...] (Python slice semantics: clamps, a negative k counts from the end)
slice(w, k) ==
    IF k >= 0 THEN SubSeq(w, 1, Min(k, Len(w)))
    ELSE SubSeq(w, 1, Max(Len(w) + k, 0))

\* kwargs.get(key, default)
kwargs_get(kwargs, key, default) ==
    IF key \in DOMAIN kwargs THEN kwargs[key] ELSE default

NoKwargs == [k \in {} |-> 0]

\* the keyword overrides callers pass in the model
KwargsSet ==
    { NoKwargs,
      [stride |-> <<1, 1>>, groups |-> 2] }

-----------------------------------------------------------------------------
(* Convolutions *)

\* pretrained weight with k channel slices
Pretrained(k) == [i \in 1 .. k |-> i]

\* a bug: the stride is not handed on, so the module gets nn.Conv2d's default
Conv2dSame_default_stride(id, in_channels, out_channels, kernel_size, stride, padding, dilation, groups, bias, zero_ok) ==
    IF groups <= 0 \/ in_channels % groups # 0 \/ out_channels % groups # 0
    THEN [error |-> "ValueError", conv |-> <<>>]
    ELSE IF in_channels < 0
    THEN [error |-> "RuntimeError", conv |-> <<>>]
    ELSE IF in_channels = 0 /\ ~zero_ok
    THEN [error |-> "ZeroDivisionError", conv |-> <<>>]
    ELSE [error |-> "",
          conv |-> << [id |-> id,
                       in_channels |-> in_channels,
                       out_channels |-> out_channels,
                       kernel_size |-> kernel_size,
                       stride |-> <<1, 1>>,
                       padding |-> <<0, 0>>,
                       dilation |-> dilation,
                       groups |-> groups,
                       bias |-> bias,
                       weight |-> [i \in 1 .. (in_channels \div groups) |-> 0]] >>]

\* nn.Conv2d / Conv2dSame constructor as the adapter calls it.  Conv2dSame
\* hands padding 0 to nn.Conv2d whatever it is given; nn.Conv2d rejects
\* channel counts not divisible by groups and cannot allocate a negative
\* dimension; whether a zero-channel weight can be initialised depends on the
\* torch build (zero_ok).  Returns [error, conv]: conv is <<c>> or <<>>.
Conv2dSame(id, in_channels, out_channels, kernel_size, stride, padding, dilation, groups, bias, zero_ok) ==
    IF groups <= 0 \/ in_channels % groups # 0 \/ out_channels % groups # 0
    THEN [error |-> "ValueError", conv |-> <<>>]
    ELSE IF in_channels < 0
    THEN [error |-> "RuntimeError", conv |-> <<>>]
    ELSE IF in_channels = 0 /\ ~zero_ok
    THEN [error |-> "ZeroDivisionError", conv |-> <<>>]
    ELSE [error |-> "",
          conv |-> << [id |-> id,
                       in_channels |-> in_channels,
                       out_channels |-> out_channels,
                       kernel_size |-> kernel_size,
                       stride |-> stride,
                       padding |-> <<0, 0>>,
                       dilation |-> dilation,
                       groups |-> groups,
                       bias |-> bias,
                       weight |-> [i \in 1 .. (in_channels \div groups) |-> 0]] >>]

\* a bug: shrinking keeps the last in_channels slices, w[:, -in_channels:, ...]
new_weight_keep_last(conv, in_channels) ==
    LET w == conv.weight IN
    IF in_channels > conv.in_channels
    THEN IF conv.in_channels = 0
         THEN [error |-> "ZeroDivisionError", w |-> <<>>]
         ELSE [error |-> "",
               w |-> slice(cat(w, ceil(in_channels, conv.in_channels)), in_channels)]
    ELSE [error |-> "",
          w |-> SubSeq(w, Max(Len(w) - in_channels, 0) + 1, Len(w))]

\* lines 43-51: the weight given to new_conv, or the error of dividing by a
\* zero conv.in_channels
new_weight(conv, in_channels) ==
    LET w == conv.weight IN
    IF in_channels > conv.in_channels
    THEN IF conv.in_channels = 0
         THEN [error |-> "ZeroDivisionError", w |-> <<>>]
         ELSE [error |-> "",
               w |-> slice(cat(w, ceil(in_channels, conv.in_channels)), in_channels)]
    ELSE [error |-> "", w |-> slice(w, in_channels)]

\* lines 30-53 of make_n_channel_input_conv2d_same: build new_conv (module
\* identity id) and give it the weight derived from conv.  The result
\* records the arguments, whether the warning was issued, the exception
\* raised ("" if none) and the returned module (ret is <<c>>, or <<>> when
\* it raised).
rebuild(conv, in_channels, kwargs, id, zero_ok) ==
    LET base == [conv |-> conv, in_channels |-> in_channels, kwargs |-> kwargs,
                 warned |-> FALSE]
        made == Conv2dSame(id, in_channels, conv.out_channels,
                    kwargs_get(kwargs, "kernel_size", conv.kernel_size),
                    kwargs_get(kwargs, "stride", conv.stride),
                    kwargs_get(kwargs, "padding", conv.padding),
                    kwargs_get(kwargs, "dilation", conv.dilation),
                    kwargs_get(kwargs, "groups", conv.groups),
                    kwargs_get(kwargs, "bias", conv.bias),
                    zero_ok)
        nw == new_weight(conv, in_channels)
    IN
    IF made.error # ""
    THEN base @@ [error |-> made.error, ret |-> <<>>]
    ELSE IF nw.error # ""
    THEN base @@ [error |-> nw.error, ret |-> <<>>]
    ELSE base @@ [error |-> "",
                  ret |-> << [made.conv[1] EXCEPT !.weight = nw.w] >>]

\* a bug: the guard of lines 26-28 is missing, an equal count rebuilds too
always_rebuild(conv, in_channels, kwargs, id, zero_ok) ==
    rebuild(conv, in_channels, kwargs, id, zero_ok)

\* make_n_channel_input_conv2d_same(conv, in_channels, mode, **kwargs)
make_n_channel_input_conv2d_same(conv, in_channels, kwargs, id, zero_ok) ==
    IF conv.in_channels = in_channels
    THEN [conv |-> conv, in_channels |-> in_channels, kwargs |-> kwargs,
          warned |-> TRUE, error |-> "", ret |-> <<conv>>]
    ELSE rebuild(conv, in_channels, kwargs, id, zero_ok)

-----------------------------------------------------------------------------
(* Encoders *)

SizeVariants == {"B0", "B1", "B2", "B3", "B4", "B5", "B6", "B7"}
Variants == SizeVariants \cup {"MixNetXL"}

\* the timm constructor each class imports
model_name(variant) ==
    CASE variant = "B0" -> "tf_efficientnet_b0_ns"
      [] variant = "B1" -> "tf_efficientnet_b1_ns"
      [] variant = "B2" -> "tf_efficientnet_b2_ns"
      [] variant = "B3" -> "tf_efficientnet_b3_ns"
      [] variant = "B4" -> "tf_efficientnet_b4_ns"
      [] variant = "B5" -> "tf_efficientnet_b5_ns"
      [] variant = "B6" -> "tf_efficientnet_b6_ns"
      [] variant = "B7" -> "tf_efficientnet_b7_ns"
      [] variant = "MixNetXL" -> "mixnet_xl"

\* a bug: the rates 0.05/0.1/0.1/0.2/... in place of the ones written
drop_path_rate_shifted(variant) ==
    CASE variant = "B0" -> 5
      [] variant \in {"B1", "B2"} -> 10
      [] OTHER -> 20

\* drop_path_rate=... in each class's provider call, in hundredths
drop_path_rate(variant) ==
    CASE variant = "B0" -> 5
      [] variant = "B1" -> 5
      [] variant = "B2" -> 10
      [] variant = "B3" -> 10
      [] variant = "B4" -> 20
      [] variant = "B5" -> 20
      [] variant = "B6" -> 20
      [] variant = "B7" -> 20
      [] variant = "MixNetXL" -> 20

\* the channel table each class hands to EncoderModule.__init__
channels(variant) ==
    CASE variant = "B0" -> <<16, 24, 40, 112, 320>>
      [] variant = "B1" -> <<16, 24, 40, 112, 320>>
      [] variant = "B2" -> <<16, 24, 48, 120, 352>>
      [] variant = "B3" -> <<24, 32, 48, 136, 384>>
      [] variant = "B4" -> <<24, 32, 56, 160, 448>>
      [] variant = "B5" -> <<24, 40, 64, 176, 512>>
      [] variant = "B6" -> <<32, 40, 72, 200, 576>>
      [] variant = "B7" -> <<32, 48, 80, 224, 640>>
      [] variant = "MixNetXL" -> <<40, 48, 64, 192, 320>>

\* strides = [2, 4, 8, 16, 32]
default_strides == <<2, 4, 8, 16, 32>>

\* layers=[1, 2, 3, 4]
default_layers == <<1, 2, 3, 4>>

\* act_layer is a module class (Swish by default) or the name of one
Swish == [is_str |-> FALSE, name |-> "swish"]
ActLayers == {Swish, [is_str |-> TRUE, name |-> "relu"]}

\* if isinstance(act_layer, str): act_layer = get_activation_block(act_layer)
resolve_act_layer(act_layer) ==
    IF act_layer.is_str THEN [is_str |-> FALSE, name |-> act_layer.name] ELSE act_layer

\* width of the stem the provider builds for a variant
stem_width(variant) ==
    CASE variant \in {"B0", "B1", "B2"} -> 32
      [] variant \in {"B3", "MixNetXL"} -> 40
      [] variant \in {"B4", "B5"} -> 48
      [] variant = "B6" -> 56
      [] variant = "B7" -> 64

\* The backbone the provider returns for
\* <model>(pretrained=..., features_only=True, act_layer=..., drop_path_rate=...):
\* a 3-channel stem (module 0) and, per block group i, the stride and
\* dilation of blocks[i][0].conv_dw.
provider(variant, pretrained, act_layer, rate) ==
    [ name |-> model_name(variant),
      pretrained |-> pretrained,
      features_only |-> TRUE,
      act_layer |-> act_layer,
      drop_path_rate |-> rate,
      conv_stem |-> [ id |-> 0, in_channels |-> 3,
                      out_channels |-> stem_width(variant),
                      kernel_size |-> <<3, 3>>, stride |-> <<2, 2>>,
                      padding |-> <<0, 0>>, dilation |-> <<1, 1>>,
                      groups |-> 1, bias |-> FALSE,
                      weight |-> Pretrained(3) ],
      blocks |-> [ i \in 0 .. 6 |->
                     [ stride |-> IF i \in {1, 2, 3, 5} THEN <<2, 2>> ELSE <<1, 1>>,
                       dilation |-> <<1, 1>> ] ] ]

\* a bug: the positions of the stride list are taken one too low
no_stride_strides_low(strides) == [strides EXCEPT ![3] = 8, ![4] = 8]

\* the no_stride branch of __init__ on the backbone and on the stride list
\* (Python positions 3 and 4 are positions 4 and 5 of the sequence)
no_stride_blocks(blocks) ==
    [blocks EXCEPT ![5] = [stride |-> <<1, 1>>, dilation |-> <<2, 2>>],
                   ![3] = [stride |-> <<1, 1>>, dilation |-> <<2, 2>>]]

no_stride_strides(strides) == [strides EXCEPT ![4] = 8, ![5] = 8]

\* <Variant>Encoder.__init__(pretrained, layers, act_layer, no_stride)
\* (MixNetXLEncoder takes no no_stride and is built with FALSE here);
\* args keeps the arguments the constructor was called with
init(variant, pretrained, layers, act_layer, no_stride) ==
    LET encoder == provider(variant, pretrained, resolve_act_layer(act_layer),
                            drop_path_rate(variant))
    IN [ variant |-> variant,
         args |-> [pretrained |-> pretrained, layers |-> layers,
                   act_layer |-> act_layer, no_stride |-> no_stride],
         channels |-> channels(variant),
         strides |-> IF no_stride THEN no_stride_strides(default_strides)
                     ELSE default_strides,
         layers |-> layers,
         encoder |-> IF no_stride
                     THEN [encoder EXCEPT !.blocks = no_stride_blocks(@)]
                     ELSE encoder ]

\* _take(elements, indexes) of ..common: the elements at the given stage
\* positions, in the order of indexes
_take(elements, indexes) == [k \in 1 .. Len(indexes) |-> elements[indexes[k]]]

\* self.encoder(x) for an input with x_channels channels: the five stage
\* outputs in stage order, or the convolution's shape error
encoder_call(encoder, x_channels) ==
    LET stem == encoder.conv_stem IN
    IF x_channels = Len(stem.weight) * stem.groups
    THEN [error |-> "",
          features |-> [k \in 1 .. 5 |-> [stage |-> k]]]
    ELSE [error |-> "RuntimeError", features |-> <<>>]

\* a bug: every stage output is returned, self._layers is not applied
forward_all(enc, x_channels) ==
    LET r == encoder_call(enc.encoder, x_channels) IN
    IF r.error # "" THEN [error |-> r.error, result |-> <<>>]
    ELSE [error |-> "", result |-> r.features]

\* forward(self, x)
forward(enc, x_channels) ==
    LET r == encoder_call(enc.encoder, x_channels) IN
    IF r.error # "" THEN [error |-> r.error, result |-> <<>>]
    ELSE [error |-> "", result |-> _take(r.features, enc.layers)]

-----------------------------------------------------------------------------
(* State                                                                   *)
(*   self      the encoder object (descriptor fields and the backbone)     *)
(*   nextId    identity of the next module object to be created            *)
(*   warnings  number of warnings issued through warnings.warn             *)
(*   calls     the adapter invocations made so far, oldest first           *)
(*   out       what the last forward call produced                         *)
(*   arg       arguments of a direct call of the adapter                   *)

\* requested-stage lists over {1,2,3,4}, any order, duplicates allowed
LayerLists == UNION {[1 .. n -> 1 .. 4] : n \in 0 .. MaxLayers}

\* nn.Conv2d modules a caller may hand to the adapter: in_channels is a
\* multiple of groups and the weight has in_channels / groups channel slices
Convs ==
    { [ id |-> 0, in_channels |-> t[1], out_channels |-> 8 * t[2],
        kernel_size |-> <<3, 3>>, stride |-> <<2, 2>>, padding |-> <<1, 1>>,
        dilation |-> <<1, 1>>, groups |-> t[2], bias |-> t[3],
        weight |-> Pretrained(t[1] \div t[2]) ] :
      t \in { u \in (1 .. MaxConvChannels) \X {1, 2, 3} \X BOOLEAN :
                 u[1] % u[2] = 0 } }

NoOut == [error |-> "", result |-> <<>>, called |-> FALSE]

IdleArg ==
    [conv |-> provider("B0", TRUE, Swish, drop_path_rate("B0")).conv_stem,
     in_channels |-> 3, kwargs |-> NoKwargs, zero_ok |-> TRUE]

\* an encoder right after construction
Built(enc) ==
    /\ self = enc
    /\ nextId = 1
    /\ warnings = 0
    /\ calls = <<>>
    /\ out = NoOut

\* encoders built with the default pretrained, layers and act_layer
Init ==
    /\ \E variant \in Variants, no_stride \in BOOLEAN :
          /\ variant = "MixNetXL" => ~no_stride
          /\ Built(init(variant, TRUE, default_layers, Swish, no_stride))
    /\ arg = IdleArg

\* encoders built with any constructor arguments
InitBuild ==
    /\ \E variant \in Variants, pretrained \in BOOLEAN,
          layers \in LayerLists \cup {default_layers},
          act_layer \in ActLayers, no_stride \in BOOLEAN :
          /\ variant = "MixNetXL" => ~no_stride
          /\ Built(init(variant, pretrained, layers, act_layer, no_stride))
    /\ arg = IdleArg

\* a direct call of the adapter about to be made
InitAdapter ==
    /\ Built(init("B0", TRUE, default_layers, Swish, FALSE))
    /\ arg \in [conv : Convs, in_channels : -1 .. MaxDirectCount,
                kwargs : KwargsSet, zero_ok : BOOLEAN]

\* change_input_channels with the adapter applied to conv; the record of
\* the adapter call also keeps the stem the encoder has afterwards and
\* what the method returned ("" when the exception propagated)
change_from(conv, input_channels, kwargs, zero_ok) ==
    /\ Len(calls) < MaxCalls
    /\ LET r == make_n_channel_input_conv2d_same(conv, input_channels, kwargs,
                    nextId, zero_ok)
           enc == IF r.error = ""
                  THEN [self EXCEPT !.encoder.conv_stem = r.ret[1]]
                  ELSE self
       IN /\ self' = enc
          /\ calls' = Append(calls,
                 r @@ [stem |-> enc.encoder.conv_stem,
                       returned |-> IF r.error = "" THEN "self" ELSE ""])
          /\ warnings' = warnings + (IF r.warned THEN 1 ELSE 0)
          /\ nextId' = IF r.warned THEN nextId ELSE nextId + 1
    /\ UNCHANGED <<out, arg>>

\* a bug: the new stem is derived from the stem the provider built
change_from_pretrained(input_channels, kwargs, zero_ok) ==
    change_from(provider(self.variant, TRUE, Swish, 0).conv_stem,
                input_channels, kwargs, zero_ok)

\* self.change_input_channels(input_channels, mode, **kwargs)
change_input_channels(input_channels, kwargs, zero_ok) ==
    change_from(self.encoder.conv_stem, input_channels, kwargs, zero_ok)

\* self.forward(x) / self(x) on an input with x_channels channels
Forward(x_channels) ==
    /\ out' = forward(self, x_channels) @@ [called |-> TRUE]
    /\ UNCHANGED <<self, nextId, warnings, calls, arg>>

\* make_n_channel_input_conv2d_same(arg.conv, arg.in_channels, **arg.kwargs)
DirectCall ==
    /\ calls = <<>>
    /\ LET r == make_n_channel_input_conv2d_same(arg.conv, arg.in_channels,
                    arg.kwargs, nextId, arg.zero_ok)
       IN /\ calls' = <<r>>
          /\ warnings' = warnings + (IF r.warned THEN 1 ELSE 0)
          /\ nextId' = IF r.warned THEN nextId ELSE nextId + 1
    /\ UNCHANGED <<self, out, arg>>

\* the torch build decides zero_ok, which matters only for a count of 0
ChangeStep ==
    \E input_channels \in Counts, kwargs \in KwargsSet :
        \E zero_ok \in (IF input_channels = 0 THEN BOOLEAN ELSE {TRUE}) :
            change_input_channels(input_channels, kwargs, zero_ok)

ForwardStep == \E x_channels \in 1 .. MaxCount : Forward(x_channels)

Next == ChangeStep \/ ForwardStep

Spec == Init /\ [][Next]_vars

SpecBuild == InitBuild /\ [][ForwardStep]_vars

SpecAdapter == InitAdapter /\ [][DirectCall]_vars

-----------------------------------------------------------------------------
(* Properties *)

Calls == {calls[k] : k \in 1 .. Len(calls)}

\* the stem the encoder was constructed with
constructed_stem ==
    IF calls = <<>> THEN self.encoder.conv_stem ELSE calls[1].conv

\* C1: growing a convolution with groups = 1 from C to N > C channels
\* returns a new module whose weight has exactly N channel slices, slice i
\* being the original slice i mod C (so the first C are the original's)
C1_GrowTilesCyclically ==
    \A r \in Calls :
        LET C == r.conv.in_channels
            N == r.in_channels
        IN (r.conv.groups = 1 /\ N > C) =>
             /\ r.kwargs = NoKwargs => r.error = ""
             /\ r.error = "" =>
                  /\ r.ret[1].id # r.conv.id
                  /\ r.ret[1].in_channels = N
                  /\ Len(r.ret[1].weight) = N
                  /\ \A i \in 0 .. N - 1 :
                         r.ret[1].weight[i + 1] = r.conv.weight[(i % C) + 1]
                  /\ SubSeq(r.ret[1].weight, 1, C) = r.conv.weight

\* a direct call that grew a groups = 1 convolution to a count that is not
\* a multiple of its channels
C1_Witness ==
    \E r \in Calls :
        /\ r.conv.groups = 1 /\ r.conv.in_channels = 3 /\ r.in_channels = 8
        /\ r.error = ""
        /\ r.ret[1].weight = <<1, 2, 3, 1, 2, 3, 1, 2>>

\* C2 as stated: shrinking any convolution from C to 1 <= N < C channels
\* returns a new module whose weight has exactly N channel slices, slice i
\* being the original slice i
C2_ShrinkAnyConvIsPrefix ==
    \A r \in Calls :
        LET C == r.conv.in_channels
            N == r.in_channels
        IN (1 <= N /\ N < C /\ r.error = "") =>
             /\ r.ret[1].id # r.conv.id
             /\ Len(r.ret[1].weight) = N
             /\ \A i \in 0 .. N - 1 : r.ret[1].weight[i + 1] = r.conv.weight[i + 1]

\* C2 amended: the same for a convolution with groups = 1; without keyword
\* overrides the call returns
C2_ShrinkIsPrefix ==
    \A r \in Calls :
        LET C == r.conv.in_channels
            N == r.in_channels
        IN (r.conv.groups = 1 /\ 1 <= N /\ N < C) =>
             /\ r.kwargs = NoKwargs => r.error = ""
             /\ r.error = "" =>
                  /\ r.ret[1].id # r.conv.id
                  /\ r.ret[1].in_channels = N
                  /\ Len(r.ret[1].weight) = N
                  /\ \A i \in 0 .. N - 1 :
                         r.ret[1].weight[i + 1] = r.conv.weight[i + 1]
                  /\ (N = 1 => r.ret[1].weight = <<r.conv.weight[1]>>)

\* a direct call that shrank a 5-channel groups = 1 convolution to 2 channels
C2_Witness ==
    \E r \in Calls :
        /\ r.conv.groups = 1 /\ r.conv.in_channels = 5 /\ r.in_channels = 2
        /\ r.error = ""
        /\ r.ret[1].weight = <<1, 2>>

\* C3: a change_input_channels call with the stem's current count issues
\* the warning, gets back the very module it passed (same identity, same
\* weights), and leaves that module as the encoder's stem
C3_SpuriousCallReturnsSameConv ==
    \A r \in Calls :
        r.in_channels = r.conv.in_channels =>
            /\ r.warned
            /\ r.error = ""
            /\ r.ret = <<r.conv>>
            /\ r.stem = r.conv
            /\ r.returned = "self"

\* the count was changed to 6 and then 6 was requested again
C3_Witness ==
    /\ Len(calls) = 2
    /\ calls[1].in_channels = 6 /\ calls[1].error = ""
    /\ calls[2].in_channels = 6 /\ calls[2].warned
    /\ self.encoder.conv_stem.id = calls[1].ret[1].id
    /\ warnings = 1

\* the two calls k, k+1 are change_input_channels(6) and
\* change_input_channels(3) on the constructed 3-channel stem, both returning
RoundTrip(k) ==
    /\ k + 1 <= Len(calls)
    /\ calls[k].conv = constructed_stem
    /\ calls[k].conv.in_channels = 3
    /\ calls[k].in_channels = 6 /\ calls[k].error = ""
    /\ calls[k + 1].in_channels = 3 /\ calls[k + 1].error = ""

\* C4 as stated: after change_input_channels(6) and change_input_channels(3)
\* on a 3-channel stem the stem's weights differ from the original's
C4_RoundTripDiffers ==
    \A k \in 1 .. Len(calls) :
        RoundTrip(k) => calls[k + 1].stem.weight # calls[k].conv.weight

\* C4 amended: after the round trip the stem is a new module (not the
\* original object) whose weights equal the original's, slice for slice
C4_RoundTripRestoresWeights ==
    \A k \in 1 .. Len(calls) :
        RoundTrip(k) =>
            /\ calls[k + 1].stem.weight = calls[k].conv.weight
            /\ calls[k + 1].stem.in_channels = 3
            /\ calls[k + 1].stem.id # calls[k].conv.id
            /\ calls[k].stem.weight = calls[k].conv.weight \o calls[k].conv.weight

\* the round trip 3 -> 6 -> 3 was made
C4_Witness == RoundTrip(1) /\ self.encoder.conv_stem = calls[2].ret[1]

\* C5: a size variant built with no_stride has stride (1,1) and dilation
\* (2,2) on blocks[5][0].conv_dw and blocks[3][0].conv_dw and the stride
\* table [2,4,8,8,8]; built without, its blocks are the provider's and the
\* table is [2,4,8,16,32]
C5_NoStrideRewrite ==
    self.variant \in SizeVariants =>
        LET blocks == self.encoder.blocks
            dilated == [stride |-> <<1, 1>>, dilation |-> <<2, 2>>]
            built == provider(self.variant, TRUE, Swish, 0).blocks
        IN IF self.args.no_stride
           THEN /\ blocks[5] = dilated
                /\ blocks[3] = dilated
                /\ \A i \in DOMAIN blocks \ {3, 5} : blocks[i] = built[i]
                /\ self.strides = <<2, 4, 8, 8, 8>>
           ELSE /\ blocks = built
                /\ blocks[5].stride = <<2, 2>> /\ blocks[3].stride = <<2, 2>>
                /\ self.strides = <<2, 4, 8, 16, 32>>

\* a B7 encoder built with no_stride
C5_Witness ==
    /\ self.variant = "B7"
    /\ self.args.no_stride
    /\ self.strides[4] = 8 /\ self.strides[5] = 8

\* C6: a forward call that returns gives one tensor per entry of the
\* requested stages, the k-th being the output of stage layers[k]
C6_ForwardFollowsRequestedOrder ==
    (out.called /\ out.error = "") =>
        /\ Len(out.result) = Len(self.layers)
        /\ \A k \in 1 .. Len(self.layers) : out.result[k].stage = self.layers[k]

\* forward returned for the requested stages [4, 2]
C6_Witness ==
    /\ self.layers = <<4, 2>>
    /\ out.called /\ out.error = ""
    /\ out.result[1].stage = 4 /\ out.result[2].stage = 2

\* C7 as stated: a change_input_channels call with a count below 1 fails
\* and leaves the stem unchanged
C7_CountBelowOneFails ==
    \A r \in Calls :
        r.in_channels < 1 => (r.error # "" /\ r.stem = r.conv)

\* the rates of C8 as stated
stated_rate(variant) ==
    CASE variant = "B0" -> 5
      [] variant \in {"B1", "B2"} -> 10
      [] OTHER -> 20

\* C8 as stated: the drop-path rates handed to the provider are 0.05, 0.1,
\* 0.1, 0.2, 0.2, 0.2, 0.2, 0.2 for B0..B7 and 0.2 for MixNetXL
C8_StatedRates == self.encoder.drop_path_rate = stated_rate(self.variant)

\* the rates of C8 as amended
written_rate(variant) ==
    CASE variant \in {"B0", "B1"} -> 5
      [] variant \in {"B2", "B3"} -> 10
      [] OTHER -> 20

\* C8 amended: the rates are 0.05, 0.05, 0.1, 0.1, 0.2, 0.2, 0.2, 0.2 for
\* B0..B7 and 0.2 for MixNetXL
C8_DropPathRates ==
    /\ self.encoder.drop_path_rate = written_rate(self.variant)
    /\ self.encoder.name = model_name(self.variant)
    /\ self.encoder.features_only

\* a B3 encoder was built
C8_Witness == self.variant = "B3" /\ self.encoder.drop_path_rate = 10

\* C9: each call works on the stem the previous call left: after a shrink
\* from C to M < C and a following growth to N > M, slice i of the stem is
\* the slice (i mod M) of the stem before the shrink; a call that
\* completes returns the encoder
C9_DerivesFromCurrentStem ==
    /\ \A k \in 1 .. Len(calls) - 1 :
          LET a == calls[k]
              b == calls[k + 1]
              M == a.in_channels
              N == b.in_channels
          IN (1 <= M /\ M < a.conv.in_channels /\ N > M
                /\ a.error = "" /\ b.error = "") =>
                /\ Len(b.stem.weight) = N
                /\ \A i \in 0 .. N - 1 :
                       b.stem.weight[i + 1] = a.conv.weight[(i % M) + 1]
    /\ \A r \in Calls : r.error = "" => r.returned = "self"
    /\ \A r \in Calls :
          (/\ r.kwargs = NoKwargs /\ r.in_channels >= 1
           /\ r.conv.groups = 1 /\ r.conv.in_channels >= 1) => r.error = ""

\* the stem was shrunk from 3 to 2 channels and then grown to 5
C9_Witness ==
    /\ Len(calls) = 2
    /\ calls[1].conv.weight = <<1, 2, 3>>
    /\ calls[1].in_channels = 2 /\ calls[2].in_channels = 5
    /\ self.encoder.conv_stem.weight = <<1, 2, 1, 2, 1>>

\* the stem has the count of the latest call, a weight of that many slices
\* and the other hyperparameters of the constructed stem
StemKeepsShape ==
    LET stem == self.encoder.conv_stem
        first == constructed_stem
    IN /\ stem.in_channels =
             (IF calls = <<>> THEN first.in_channels
              ELSE calls[Len(calls)].in_channels)
       /\ Len(stem.weight) = stem.in_channels
       /\ stem.out_channels = first.out_channels
       /\ stem.kernel_size = first.kernel_size
       /\ stem.stride = first.stride
       /\ stem.dilation = first.dilation
       /\ stem.groups = first.groups
       /\ stem.bias = first.bias

\* C10 as stated: after any change_input_channels calls with counts >= 1
\* (all of which returned) and forward calls, on a stem with groups = 1
C10_AnyCallsKeepShape ==
    (/\ constructed_stem.groups = 1
     /\ \A r \in Calls : r.in_channels >= 1 /\ r.error = "")
        => StemKeepsShape

\* C10 amended: the same when no call passes keyword overrides
C10_PlainCallsKeepShape ==
    (/\ constructed_stem.groups = 1
     /\ \A r \in Calls : r.in_channels >= 1 /\ r.kwargs = NoKwargs)
        => StemKeepsShape

\* two plain calls and a forward call were made, the last call asking for 4
C10_Witness ==
    /\ Len(calls) = 2
    /\ \A r \in Calls : r.in_channels >= 1 /\ r.kwargs = NoKwargs
    /\ calls[1].in_channels = 1 /\ calls[2].in_channels = 4
    /\ out.called
    /\ self.encoder.conv_stem.in_channels = 4

====
